---- MODULE Spec2Model ----
(***************************************************************************)
(* A model of jenv (src/env.go): populateFields / setFieldValue walk a     *)
(* target record in step with a decoded document, getEnv resolves          *)
(* ${NAME:default} placeholders against the process environment and the    *)
(* getEnvValue* converters turn the resolved text into the field's kind.   *)
(*                                                                         *)
(* Go strings are sequences of one-character strings.  A decoded document  *)
(* node (Go's `any`) is a record [k, v] tagged by its dynamic type.        *)
(***************************************************************************)
EXTENDS Integers, Sequences, FiniteSets, TLC

VARIABLES target, cfg, env, op, doc, pre, err, log, raw, out

vars == <<target, cfg, env, op, doc, pre, err, log, raw, out>>

(* ---------------------------------------------------------------- bounds *)

\* Longest placeholder body / plain text handed to the resolver on its own.
MaxBody == 4

\* Longest document sequence handed to a sequence field.
MaxSeq == 2

(* ------------------------------------------------------- document nodes *)

Str(s) == [k |-> "str", v |-> s]

Num(n) == [k |-> "num", v |-> n]

Bool(b) == [k |-> "bool", v |-> b]

Null == [k |-> "null", v |-> 0]

SeqNode(s) == [k |-> "seq", v |-> s]

MapNode(m) == [k |-> "map", v |-> m]

\* A timestamp the YAML decoder already produced as a native time value.
TimeNode(t) == [k |-> "time", v |-> t]

\* The empty mapping (a function with no argument).
EmptyMap == [x \in {} |-> Null]

(* ------------------------------------------------------------- strings *)

HasPrefix(s, p) == Len(s) >= Len(p) /\ SubSeq(s, 1, Len(p)) = p

HasSuffix(s, p) == Len(s) >= Len(p) /\ SubSeq(s, Len(s) - Len(p) + 1, Len(s)) = p

IsSpace(c) == c = " "

RECURSIVE TrimLeft(_)
TrimLeft(s) ==
    IF s # <<>> /\ IsSpace(Head(s)) THEN TrimLeft(Tail(s)) ELSE s

RECURSIVE TrimRight(_)
TrimRight(s) ==
    IF s # <<>> /\ IsSpace(s[Len(s)]) THEN TrimRight(SubSeq(s, 1, Len(s) - 1)) ELSE s

\* strings.TrimSpace
TrimSpace(s) == TrimRight(TrimLeft(s))

\* Position of the first occurrence of character c in s, 0 when there is none.
RECURSIVE IndexFrom(_, _, _)
IndexFrom(s, c, i) ==
    IF i > Len(s) THEN 0
    ELSE IF s[i] = c THEN i
    ELSE IndexFrom(s, c, i + 1)

Index(s, c) == IndexFrom(s, c, 1)

\* strings.SplitN(s, sep, 2): one part when sep does not occur, else the text
\* before the first sep and everything after it.
SplitN2(s, sep) ==
    LET i == Index(s, sep)
    IN  IF i = 0 THEN <<s>>
        ELSE <<SubSeq(s, 1, i - 1), SubSeq(s, i + 1, Len(s))>>

\* strings.Split(s, sep)[0]
SplitFirst(s, sep) == SplitN2(s, sep)[1]

\* strings.ReplaceAll(s, c, "")
RECURSIVE RemoveAll(_, _)
RemoveAll(s, c) ==
    IF s = <<>> THEN <<>>
    ELSE IF Head(s) = c THEN RemoveAll(Tail(s), c)
    ELSE <<Head(s)>> \o RemoveAll(Tail(s), c)

RECURSIVE Join(_, _)
Join(ss, sep) ==
    IF ss = <<>> THEN <<>>
    ELSE IF Len(ss) = 1 THEN ss[1]
    ELSE ss[1] \o sep \o Join(Tail(ss), sep)

Digits == <<"0", "1", "2", "3", "4", "5", "6", "7", "8", "9">>

IsDigit(c) == \E d \in 1..10 : Digits[d] = c

DigitVal(c) == (CHOOSE d \in 1..10 : Digits[d] = c) - 1

AllDigits(s) == \A i \in 1..Len(s) : IsDigit(s[i])

RECURSIVE DigitsVal(_)
DigitsVal(s) ==
    IF s = <<>> THEN 0
    ELSE 10 * DigitsVal(SubSeq(s, 1, Len(s) - 1)) + DigitVal(s[Len(s)])

\* strconv.Itoa for the integers the model renders.
RECURSIVE NatText(_)
NatText(n) ==
    IF n < 10 THEN <<Digits[n + 1]>>
    ELSE NatText(n \div 10) \o <<Digits[(n % 10) + 1]>>

IntText(n) == IF n < 0 THEN <<"-">> \o NatText(-n) ELSE NatText(n)

\* Every key the documents of the model use, in ascending byte order.
KeysInOrder ==
    << <<>>, <<"N", "o", "t", "e">>, <<"a">>, <<"b">>, <<"h">>, <<"n">>, <<"o">>, <<"p">>, <<"s">>, <<"u">>, <<"v">> >>

\* The keys of a decoded mapping in ascending order (fmt and encoding/json
\* both print a map's keys sorted).
SortedKeys(m) == SelectSeq(KeysInOrder, LAMBDA key : key \in DOMAIN m)

\* fmt.Sprintf("%v", rawValue)
RECURSIVE Sprintf(_)
Sprintf(node) ==
    CASE node.k = "str" -> node.v
      [] node.k = "num" -> IntText(node.v)
      [] node.k = "bool" -> IF node.v THEN <<"t", "r", "u", "e">> ELSE <<"f", "a", "l", "s", "e">>
      [] node.k = "null" -> <<"<", "n", "i", "l", ">">>
      [] node.k = "seq" ->
            <<"[">> \o Join([i \in 1..Len(node.v) |-> Sprintf(node.v[i])], <<" ">>) \o <<"]">>
      [] node.k = "map" ->
            LET ks == SortedKeys(node.v)
            IN  <<"m", "a", "p", "[">>
                \o Join([i \in 1..Len(ks) |-> ks[i] \o <<":">> \o Sprintf(node.v[ks[i]])], <<" ">>)
                \o <<"]">>
      [] node.k = "time" -> <<"N">>

(* ------------------------------------------------ placeholder resolver *)

\* os.Getenv: an unset variable reads as the empty string.
OsGetenv(e, name) == IF name \in DOMAIN e THEN e[name] ELSE <<>>

\* getenv as getEnv calls it: Getenv(parts[0]), no default argument.
Getenv(e, name) ==
    LET val == OsGetenv(e, name)
    IN  IF val # <<>> THEN val ELSE <<>>

\* A variant of orDefault that takes the default whenever one is written.
orDefault_PreferDefault(envValue, parts) ==
    IF Len(parts) > 1 THEN parts[2] ELSE envValue

\* if envValue == "" && len(parts) > 1 { envValue = parts[1] }
orDefault(envValue, parts) ==
    IF envValue = <<>> /\ Len(parts) > 1 THEN parts[2] ELSE envValue

\* getEnv once the body is split: parts are the texts around the first ':'.
getEnvParts(e, parts) == RemoveAll(orDefault(Getenv(e, parts[1]), parts), "'")

\* getEnv once rawValue is rendered as strValue.
getEnvText(e, strValue) ==
    IF HasPrefix(strValue, <<"$", "{">>) /\ HasSuffix(strValue, <<"}">>)
    THEN getEnvParts(e, SplitN2(TrimSpace(SubSeq(strValue, 3, Len(strValue) - 1)), ":"))
    ELSE strValue

getEnv(e, rawValue) == getEnvText(e, Sprintf(rawValue))

(* ------------------------------------------------------------- errors *)

\* A nil error.
NilErr == [path |-> <<>>, kind |-> "nil", text |-> <<>>]

\* An error value: the field names it was wrapped with (outermost first),
\* the function that failed and the text it reports.
Error(kind, text) == [path |-> <<>>, kind |-> kind, text |-> text]

\* fmt.Errorf("error setting field '%s': %v", field.Name, err)
Wrap(name, e) == [e EXCEPT !.path = <<name>> \o @]

(* ------------------------------------------- standard library parsers *)

\* The grammar strconv.Atoi and strconv.ParseInt(s, 10, 64) read: an optional
\* sign and one or more decimal digits.
UnsignedPart(s) == IF s # <<>> /\ Head(s) \in {"+", "-"} THEN Tail(s) ELSE s

IsDecimal(s) == UnsignedPart(s) # <<>> /\ AllDigits(UnsignedPart(s))

\* The parsed value.  The texts of the model are short, so the 64-bit range
\* check of strconv never rejects one.
DecimalVal(s) ==
    IF Head(s) = "-" THEN -DigitsVal(UnsignedPart(s)) ELSE DigitsVal(UnsignedPart(s))

\* strconv.ParseFloat(s, 64) for decimal literals: sign, digits, an optional
\* point and digits, with a digit on at least one side of the point.
IsFloat(s) ==
    LET u == UnsignedPart(s)
        parts == SplitN2(u, ".")
    IN  /\ \A i \in 1..Len(parts) : AllDigits(parts[i])
        /\ \E i \in 1..Len(parts) : parts[i] # <<>>

RECURSIVE StripZeros(_)
StripZeros(s) ==
    IF s # <<>> /\ s[Len(s)] = "0" THEN StripZeros(SubSeq(s, 1, Len(s) - 1)) ELSE s

RECURSIVE Pow10(_)
Pow10(n) == IF n = 0 THEN 1 ELSE 10 * Pow10(n - 1)

\* A float64 as the decimal it was written as: num / 10^scale, in lowest
\* terms of the scale.
FloatVal(s) ==
    LET u == UnsignedPart(s)
        parts == SplitN2(u, ".")
        frac == IF Len(parts) > 1 THEN StripZeros(parts[2]) ELSE <<>>
        mag == DigitsVal(parts[1]) * Pow10(Len(frac)) + DigitsVal(frac)
    IN  [num |-> IF Head(s) = "-" THEN -mag ELSE mag, scale |-> Len(frac)]

ZeroFloat == [num |-> 0, scale |-> 0]

\* strconv.ParseBool
TrueTexts ==
    { <<"1">>, <<"t">>, <<"T">>, <<"T", "R", "U", "E">>, <<"t", "r", "u", "e">>, <<"T", "r", "u", "e">> }

FalseTexts ==
    { <<"0">>, <<"f">>, <<"F">>, <<"F", "A", "L", "S", "E">>, <<"f", "a", "l", "s", "e">>,
      <<"F", "a", "l", "s", "e">> }

\* time.ParseDuration for literals without a decimal point: an optional sign,
\* then "0" or one or more <digits><unit> terms.  A duration is kept as whole
\* seconds and the nanoseconds beyond them.
UnitTexts ==
    { <<"n", "s">>, <<"u", "s">>, <<"m", "s">>, <<"s">>, <<"m">>, <<"h">> }

ZeroDuration == [sec |-> 0, nsec |-> 0]

Nanos(n) == [sec |-> n \div 1000000000, nsec |-> n % 1000000000]

UnitDuration(n, unit) ==
    CASE unit = <<"n", "s">> -> Nanos(n)
      [] unit = <<"u", "s">> -> Nanos(n * 1000)
      [] unit = <<"m", "s">> -> Nanos(n * 1000000)
      [] unit = <<"s">> -> [sec |-> n, nsec |-> 0]
      [] unit = <<"m">> -> [sec |-> n * 60, nsec |-> 0]
      [] unit = <<"h">> -> [sec |-> n * 3600, nsec |-> 0]

AddDuration(a, b) ==
    [sec |-> a.sec + b.sec + ((a.nsec + b.nsec) \div 1000000000),
     nsec |-> (a.nsec + b.nsec) % 1000000000]

\* Length of the longest prefix of s made of digits (isDigit TRUE) or of
\* anything else (isDigit FALSE).
RECURSIVE RunLen(_, _)
RunLen(s, isDigit) ==
    IF s # <<>> /\ IsDigit(Head(s)) = isDigit THEN 1 + RunLen(Tail(s), isDigit) ELSE 0

\* The terms of a duration literal: [ok, val].
RECURSIVE DurationTerms(_)
DurationTerms(s) ==
    IF s = <<>> THEN [ok |-> TRUE, val |-> ZeroDuration]
    ELSE LET nd == RunLen(s, TRUE)
             rest == SubSeq(s, nd + 1, Len(s))
             nu == RunLen(rest, FALSE)
             unit == SubSeq(rest, 1, nu)
         IN  IF nd = 0 \/ unit \notin UnitTexts THEN [ok |-> FALSE, val |-> ZeroDuration]
             ELSE LET more == DurationTerms(SubSeq(rest, nu + 1, Len(rest)))
                  IN  [ok |-> more.ok,
                       val |-> AddDuration(UnitDuration(DigitsVal(SubSeq(s, 1, nd)), unit), more.val)]

ParseDuration(s) ==
    LET u == UnsignedPart(s)
        r == DurationTerms(u)
    IN  IF u = <<"0">> THEN [ok |-> TRUE, val |-> ZeroDuration]
        ELSE IF u = <<>> \/ ~r.ok THEN [ok |-> FALSE, val |-> ZeroDuration]
        ELSE IF Head(s) = "-" THEN [ok |-> TRUE, val |-> [sec |-> -r.val.sec, nsec |-> -r.val.nsec]]
        ELSE r

\* Timestamps.  A timestamp text is not spelled out: "T" stands for an
\* RFC-3339 text such as 2024-02-01T15:00:00Z (which date.Parse reads too,
\* src/env_test.go:36,69) and "D" for a date-only text such as 2024-02-01,
\* which only the flexible parser reads.  A time.Time is an instant number,
\* 0 being the zero time.
ZeroTime == 0

InstantOf(s) == CASE s = <<"T">> -> 1 [] s = <<"D">> -> 2 [] OTHER -> ZeroTime

RFC3339Texts == { <<"T">> }

FlexibleTexts == { <<"T">>, <<"D">> }

(* ---------------------------------------------------------- converters *)
\* Each converter returns [val, err, log]: the converted value, the error
\* (NilErr for none) and the time parsers it called, in call order.

Converted(val) == [val |-> val, err |-> NilErr, log |-> <<>>]

Failed(val, kind, text) == [val |-> val, err |-> Error(kind, text), log |-> <<>>]

\* The converters once getEnv returned val (the code resolves the value a
\* second time for the parser; both calls read the same environment).
atoi(val) ==
    IF val = <<>> THEN Converted(0)
    ELSE IF IsDecimal(val) THEN Converted(DecimalVal(val))
    ELSE Failed(0, "strconv.Atoi", val)

parseInt(val) ==
    IF val = <<>> THEN Converted(0)
    ELSE IF IsDecimal(val) THEN Converted(DecimalVal(val))
    ELSE Failed(0, "strconv.ParseInt", val)

parseFloat(val) ==
    IF val = <<>> THEN Converted(ZeroFloat)
    ELSE IF IsFloat(val) THEN Converted(FloatVal(val))
    ELSE Failed(ZeroFloat, "strconv.ParseFloat", val)

\* A variant of parseBool without the `if val == ""` return.
parseBool_NoEmptyCheck(val) ==
    IF val \in TrueTexts THEN Converted(TRUE)
    ELSE IF val \in FalseTexts THEN Converted(FALSE)
    ELSE Failed(FALSE, "strconv.ParseBool", val)

parseBool(val) ==
    IF val = <<>> THEN Converted(FALSE)
    ELSE IF val \in TrueTexts THEN Converted(TRUE)
    ELSE IF val \in FalseTexts THEN Converted(FALSE)
    ELSE Failed(FALSE, "strconv.ParseBool", val)

durationOf(val, d) ==
    IF val = <<>> THEN Converted(ZeroDuration)
    ELSE IF d.ok THEN Converted(d.val)
    ELSE Failed(ZeroDuration, "time.ParseDuration", val)

parseDuration(val) == durationOf(val, ParseDuration(val))

getEnvValueInt(e, rawValue) == atoi(getEnv(e, rawValue))

getEnvValueInt64(e, rawValue) == parseInt(getEnv(e, rawValue))

getEnvValueFloat(e, rawValue) == parseFloat(getEnv(e, rawValue))

getEnvValueBool(e, rawValue) == parseBool(getEnv(e, rawValue))

getEnvValueDuration(e, rawValue) == parseDuration(getEnv(e, rawValue))

\* date.Parse, the flexible parser of github.com/oarkflow/date.
dateParse(s) ==
    IF s \in FlexibleTexts THEN [val |-> InstantOf(s), err |-> NilErr, log |-> <<"date.Parse">>]
    ELSE [val |-> ZeroTime, err |-> Error("date.Parse", s), log |-> <<"date.Parse">>]

\* time.Parse("2006-01-02T15:04:05Z07:00", s)
timeParse(s) ==
    IF s \in RFC3339Texts THEN [val |-> InstantOf(s), err |-> NilErr, log |-> <<"time.Parse">>]
    ELSE [val |-> ZeroTime, err |-> Error("time.Parse", s), log |-> <<"time.Parse">>]

\* getEnvValueTime once getEnv returned val.
parseTime(rawValue, val) ==
    IF val = <<>> THEN Converted(ZeroTime)
    ELSE CASE rawValue.k = "str" -> dateParse(val)
           [] rawValue.k = "time" -> Converted(rawValue.v)
           [] OTHER -> timeParse(val)

getEnvValueTime(e, rawValue) == parseTime(rawValue, getEnv(e, rawValue))

\* json.Marshal of a decoded node.  The texts of the model hold no character
\* that JSON escapes.
RECURSIVE Marshal(_)
Marshal(node) ==
    CASE node.k = "str" -> <<"\"">> \o node.v \o <<"\"">>
      [] node.k = "num" -> IntText(node.v)
      [] node.k = "bool" -> Sprintf(node)
      [] node.k = "null" -> <<"n", "u", "l", "l">>
      [] node.k = "seq" ->
            <<"[">> \o Join([i \in 1..Len(node.v) |-> Marshal(node.v[i])], <<",">>) \o <<"]">>
      [] node.k = "map" ->
            LET ks == SortedKeys(node.v)
            IN  <<"{">>
                \o Join([i \in 1..Len(ks) |->
                            <<"\"">> \o ks[i] \o <<"\"", ":">> \o Marshal(node.v[ks[i]])], <<",">>)
                \o <<"}">>
      [] node.k = "time" -> <<"\"", "N", "\"">>

\* The %T of a decoded node.
GoType(node) ==
    CASE node.k = "str" -> "string"
      [] node.k = "num" -> "float64"
      [] node.k = "bool" -> "bool"
      [] node.k = "null" -> "<nil>"
      [] node.k = "seq" -> "[]interface {}"
      [] node.k = "map" -> "map[string]interface {}"
      [] node.k = "time" -> "time.Time"

(* ----------------------------------------------- declared field kinds *)
\* The shape of a target record, as reflection reports it.  "duration",
\* "bytes" and "time" are the types time.Duration, []byte and time.Time,
\* which setFieldValue tells from the other Int64, Slice and Struct types.

Scalar(kind) == [kind |-> kind]

SliceOf(t) == [kind |-> "slice", elem |-> t]

MapOf(t) == [kind |-> "map", elem |-> t]

PtrTo(t) == [kind |-> "ptr", elem |-> t]

Struct(fields) == [kind |-> "struct", fields |-> fields]

\* A struct field: its Go name, its json and yaml tags ("" when it has
\* none) and its type.
Field(name, json, yaml, typ) == [name |-> name, json |-> json, yaml |-> yaml, typ |-> typ]

FieldNames(t) == {t.fields[i].name : i \in 1..Len(t.fields)}

FieldOf(t, name) == t.fields[CHOOSE i \in 1..Len(t.fields) : t.fields[i].name = name]

NilSlice == [nil |-> TRUE, e |-> <<>>]

NilMap == [nil |-> TRUE, m |-> <<>>]

NilIface == [nil |-> TRUE, v |-> Null]

\* The zero value of a type.
RECURSIVE Zero(_)
Zero(t) ==
    CASE t.kind \in {"int", "int8", "int16", "int32", "int64", "uint"} -> 0
      [] t.kind = "duration" -> ZeroDuration
      [] t.kind = "float64" -> ZeroFloat
      [] t.kind = "string" -> <<>>
      [] t.kind = "bool" -> FALSE
      [] t.kind = "time" -> ZeroTime
      [] t.kind \in {"bytes", "slice"} -> NilSlice
      [] t.kind = "map" -> NilMap
      [] t.kind = "interface" -> NilIface
      [] t.kind = "ptr" -> [nil |-> TRUE, p |-> Zero(t.elem)]
      [] t.kind = "struct" -> [n \in FieldNames(t) |-> Zero(FieldOf(t, n).typ)]

\* Bits of a signed integer kind (int is 64 bits wide on the platforms Go
\* targets today).
Bits(kind) ==
    CASE kind = "int8" -> 8 [] kind = "int16" -> 16 [] kind = "int32" -> 32 [] OTHER -> 64

RECURSIVE Pow2(_)
Pow2(n) == IF n = 0 THEN 1 ELSE 2 * Pow2(n - 1)

\* reflect.Value.SetInt: the int64 is stored converted to the field's kind,
\* which keeps its low bits.  The parsed values of the model stay below 2^31,
\* so only the 8 and 16 bit kinds can lose bits.
SetInt(kind, x) ==
    IF Bits(kind) >= 32 THEN x
    ELSE ((x + Pow2(Bits(kind) - 1)) % Pow2(Bits(kind))) - Pow2(Bits(kind) - 1)

(* ------------------------------------------------------ field populator *)

\* key := strings.Split(field.Tag.Get("json"), ",")[0], falling back to the
\* yaml tag when that is empty.
lookupKey(f) ==
    LET key == SplitFirst(f.json, ",")
    IN  IF key = <<>> THEN SplitFirst(f.yaml, ",") ELSE key

lookup_NoExistsCheck(rawMap, key) ==
    [exists |-> TRUE, rawValue |-> IF key \in DOMAIN rawMap THEN rawMap[key] ELSE Null]

\* rawValue, exists := rawMap[key]
lookup(rawMap, key) ==
    IF key \in DOMAIN rawMap THEN [exists |-> TRUE, rawValue |-> rawMap[key]]
    ELSE [exists |-> FALSE, rawValue |-> Null]

asSlice_Lenient(rawValue) ==
    IF rawValue.k = "seq" THEN [ok |-> TRUE, rawSlice |-> rawValue.v]
    ELSE [ok |-> rawValue.k = "map", rawSlice |-> <<>>]

\* rawSlice, ok := rawValue.([]any)
asSlice(rawValue) ==
    IF rawValue.k = "seq" THEN [ok |-> TRUE, rawSlice |-> rawValue.v]
    ELSE [ok |-> FALSE, rawSlice |-> <<>>]

\* rawMap, ok := rawValue.(map[string]any)
asMap(rawValue) ==
    IF rawValue.k = "map" THEN [ok |-> TRUE, rawMap |-> rawValue.v]
    ELSE [ok |-> FALSE, rawMap |-> EmptyMap]

sliceIndex_Reversed(i, n) == n + 1 - i

\* slice.Index(i) receives the conversion of rawSlice[i]: the place in the
\* new sequence of n elements that the i-th document element fills.
sliceIndex(i, n) == i

assign_Early(old, new, e) == new

\* field.Set(slice) / field.Set(newMap) is reached only when no element
\* failed; an element's error returns before it.
assign(old, new, e) == IF e = NilErr THEN new ELSE old

\* The order a `range` over a decoded mapping visits its keys in: Go leaves
\* it unspecified, and the runtime starts at a random entry.
Rotate(s, start) ==
    IF s = <<>> THEN s
    ELSE LET r == start % Len(s)
         IN  SubSeq(s, r + 1, Len(s)) \o SubSeq(s, 1, r)

rangeKeys(rawMap, start) == Rotate(SortedKeys(rawMap), start)

RECURSIVE populateFrom(_, _, _, _, _, _)
RECURSIVE setFieldValue(_, _, _, _, _)
RECURSIVE sliceFrom(_, _, _, _, _, _)
RECURSIVE mapFrom(_, _, _, _, _, _)

\* A result with the time parsers called before it put in front of its own.
After(log0, r) == [r EXCEPT !.log = log0 \o @]

\* `return err` leaves the field as it was; otherwise the converted value
\* is stored.
keep(field, r) == IF r.err # NilErr THEN [r EXCEPT !.val = field] ELSE r

\* field.SetInt(int64(val)) after getEnvValueInt.
keepInt(kind, field, r) ==
    IF r.err # NilErr THEN [r EXCEPT !.val = field] ELSE [r EXCEPT !.val = SetInt(kind, r.val)]

\* One round of the slice case's loop, r being the conversion of element i
\* into its place in `slice`, the sequence under construction.
sliceStep(e, start, t, rawSlice, slice, i, r) ==
    IF r.err # NilErr
    THEN [r EXCEPT !.val = [slice EXCEPT ![sliceIndex(i, Len(rawSlice))] = r.val]]
    ELSE After(r.log, sliceFrom(e, start, t, rawSlice,
                                [slice EXCEPT ![sliceIndex(i, Len(rawSlice))] = r.val], i + 1))

\* The loop of the slice case from element i on.
sliceFrom(e, start, t, rawSlice, slice, i) ==
    IF i > Len(rawSlice) THEN Converted(slice)
    ELSE sliceStep(e, start, t, rawSlice, slice, i,
                   setFieldValue(e, start, t.elem, Zero(t.elem), rawSlice[i]))

\* One round of the map case's loop, r being the conversion of the value
\* under the key k = Head(keys) and newMap the mapping under construction.
mapStep(e, start, t, rawMap, newMap, keys, r) ==
    IF r.err # NilErr THEN [r EXCEPT !.val = newMap]
    ELSE After(r.log, mapFrom(e, start, t, rawMap, newMap @@ (Head(keys) :> r.val), Tail(keys)))

\* The loop of the map case over the keys still to visit.
mapFrom(e, start, t, rawMap, newMap, keys) ==
    IF keys = <<>> THEN Converted(newMap)
    ELSE mapStep(e, start, t, rawMap, newMap, keys,
                 setFieldValue(e, start, t.elem, Zero(t.elem), rawMap[Head(keys)]))

\* The end of the slice and map cases: r is what the element loop returned,
\* built the collection made of r.val.
collected(field, built, r) == [r EXCEPT !.val = assign(field, built, r.err)]

sliceBuilt(field, r) == collected(field, [nil |-> FALSE, e |-> r.val], r)

mapBuilt(field, r) == collected(field, [nil |-> FALSE, m |-> r.val], r)

\* The slice case for a field that is no byte slice, s being the type
\* assertion's result.
sliceCase(e, start, t, field, rawValue, s) ==
    IF ~s.ok THEN Failed(field, "expected slice for field", <<GoType(rawValue)>>)
    ELSE sliceBuilt(field, sliceFrom(e, start, t, s.rawSlice,
                                     [i \in 1..Len(s.rawSlice) |-> Zero(t.elem)], 1))

\* The map case, m being the type assertion's result.
mapCase(e, start, t, field, rawValue, m) ==
    IF ~m.ok THEN Failed(field, "expected map for field", <<GoType(rawValue)>>)
    ELSE mapBuilt(field, mapFrom(e, start, t, m.rawMap, <<>>, rangeKeys(m.rawMap, start)))

\* The struct case for a record that is no time.Time.
structCase(e, start, t, field, rawValue, m) ==
    IF ~m.ok THEN Failed(field, "expected struct map for field", <<GoType(rawValue)>>)
    ELSE populateFrom(e, start, t, field, m.rawMap, 1)

\* The switch of setFieldValue on the kind of a field that is no pointer.
setValue(e, start, t, field, rawValue) ==
    CASE t.kind \in {"int", "int8", "int16", "int32"} ->
            keepInt(t.kind, field, getEnvValueInt(e, rawValue))
      [] t.kind = "duration" -> keep(field, getEnvValueDuration(e, rawValue))
      [] t.kind = "int64" -> keep(field, getEnvValueInt64(e, rawValue))
      [] t.kind = "float64" -> keep(field, getEnvValueFloat(e, rawValue))
      [] t.kind = "string" -> Converted(getEnv(e, rawValue))
      [] t.kind = "bool" -> keep(field, getEnvValueBool(e, rawValue))
      [] t.kind = "bytes" ->
            IF rawValue # Null THEN Converted([nil |-> FALSE, e |-> Marshal(rawValue)])
            ELSE Converted(field)
      [] t.kind = "slice" -> sliceCase(e, start, t, field, rawValue, asSlice(rawValue))
      [] t.kind = "map" -> mapCase(e, start, t, field, rawValue, asMap(rawValue))
      [] t.kind = "time" -> keep(field, getEnvValueTime(e, rawValue))
      [] t.kind = "struct" -> structCase(e, start, t, field, rawValue, asMap(rawValue))
      [] t.kind = "interface" ->
            IF rawValue # Null THEN Converted([nil |-> FALSE, v |-> rawValue])
            ELSE Converted(field)
      [] OTHER -> Failed(field, "unsupported field type", <<t.kind>>)

\* field.Set(reflect.New(field.Type().Elem())): the pointer holds whatever
\* the switch made of the new value, failed or not.
pointedAt(r) == [r EXCEPT !.val = [nil |-> FALSE, p |-> r.val]]

\* setFieldValue: a pointer field is first pointed at a new zero value, and
\* the switch then runs on that value.
setFieldValue(e, start, t, field, rawValue) ==
    IF t.kind = "ptr" THEN pointedAt(setValue(e, start, t.elem, Zero(t.elem), rawValue))
    ELSE setValue(e, start, t, field, rawValue)

\* The record val with its field called name set to x.
withField(val, name, x) == [val EXCEPT ![name] = x]

\* One round of populateFields' loop for the field f whose key the document
\* holds, r being what setFieldValue returned for it.
fieldSet(e, start, t, val, rawMap, i, f, r) ==
    IF r.err # NilErr
    THEN [val |-> withField(val, f.name, r.val), err |-> Wrap(f.name, r.err), log |-> r.log]
    ELSE After(r.log, populateFrom(e, start, t, withField(val, f.name, r.val), rawMap, i + 1))

\* One round of populateFields' loop, found being the lookup of f's key.
fieldStep(e, start, t, val, rawMap, i, f, found) ==
    IF ~found.exists THEN populateFrom(e, start, t, val, rawMap, i + 1)
    ELSE fieldSet(e, start, t, val, rawMap, i, f,
                  setFieldValue(e, start, f.typ, val[f.name], found.rawValue))

\* The loop of populateFields from field i on; val is the record so far.
populateFrom(e, start, t, val, rawMap, i) ==
    IF i > Len(t.fields) THEN Converted(val)
    ELSE fieldStep(e, start, t, val, rawMap, i, t.fields[i],
                   lookup(rawMap, lookupKey(t.fields[i])))

populateFields(e, start, t, val, rawMap) == populateFrom(e, start, t, val, rawMap, 1)

(* ------------------------------------------------------ target records *)

\* One-field records, struct { V K `json:"v"` }, one for each kind K.
ScalarKinds ==
    { "int", "int8", "int16", "int32", "int64", "float64", "bool", "string", "duration",
      "time", "interface", "bytes", "uint" }

\* struct { Name string `json:"n,o"`; Hosts []string `json:"h"`; Port int8 `yaml:"p"` }
ServerType ==
    Struct(<< Field("Name", <<"n", ",", "o">>, <<>>, Scalar("string")),
              Field("Hosts", <<"h">>, <<>>, SliceOf(Scalar("string"))),
              Field("Port", <<>>, <<"p">>, Scalar("int8")) >>)

\* struct { Note string; Name string `json:"n"` }: Note carries no tag.
PlainType ==
    Struct(<< Field("Note", <<>>, <<>>, Scalar("string")),
              Field("Name", <<"n">>, <<>>, Scalar("string")) >>)

\* struct { Ports map[string]int `json:"p"` }
DatabaseType == Struct(<< Field("Ports", <<"p">>, <<>>, MapOf(Scalar("int"))) >>)

\* struct { Name string `json:"n"`; Nums []int8 `json:"u"` }
ServiceType ==
    Struct(<< Field("Name", <<"n">>, <<>>, Scalar("string")),
              Field("Nums", <<"u">>, <<>>, SliceOf(Scalar("int8"))) >>)

\* struct { Service Service `json:"s"`; Opt *Service `json:"o"` }
AppType ==
    Struct(<< Field("Service", <<"s">>, <<>>, ServiceType),
              Field("Opt", <<"o">>, <<>>, PtrTo(ServiceType)) >>)

Targets == ScalarKinds \cup {"Server", "Plain", "Database", "App"}

TargetType(name) ==
    CASE name = "Server" -> ServerType
      [] name = "Plain" -> PlainType
      [] name = "Database" -> DatabaseType
      [] name = "App" -> AppType
      [] OTHER -> Struct(<< Field("V", <<"v">>, <<>>, Scalar(name)) >>)

(* ----------------------------------------------------------- documents *)

\* ${A}, ${A:5}, ${A:x}, ${B:y}
PhA == Str(<<"$", "{", "A", "}">>)

PhA5 == Str(<<"$", "{", "A", ":", "5", "}">>)

PhAx == Str(<<"$", "{", "A", ":", "x", "}">>)

PhBy == Str(<<"$", "{", "B", ":", "y", "}">>)

\* The sequences of at most n elements of S.
RECURSIVE SeqsUpTo(_, _)
SeqsUpTo(S, n) ==
    IF n = 0 THEN {<<>>}
    ELSE LET shorter == SeqsUpTo(S, n - 1)
         IN  shorter \cup {Append(s, x) : s \in {t \in shorter : Len(t) = n - 1}, x \in S}

\* The mappings from a subset of the keys K to values drawn per key from V[k].
MapsOver(K, V) ==
    UNION {[D -> UNION {V[k] : k \in D}] : D \in SUBSET K}

Mappings(V) ==
    {m \in MapsOver(DOMAIN V, V) : \A k \in DOMAIN m : m[k] \in V[k]}

ScalarRaws ==
    { PhA, PhA5, Str(<<>>), Str(<<"7">>), Str(<<"-", "7">>), Str(<<"3", "0", "0">>),
      Str(<<"7", "0", "0", "0", "0">>), Str(<<"x">>), Str(<<"t">>), Str(<<"1", "s">>),
      Str(<<"2", ".", "5">>), Str(<<"T">>), Str(<<"D">>),
      Num(5), Bool(TRUE), Null, TimeNode(3), SeqNode(<<>>), MapNode(EmptyMap) }

ScalarDocs == Mappings(<<"v">> :> ScalarRaws)

ServerDocs ==
    Mappings((<<"n">> :> {PhAx})
          @@ (<<"h">> :> ({SeqNode(s) : s \in SeqsUpTo({PhAx, PhBy}, MaxSeq)}
                          \cup {MapNode(<<"a">> :> PhAx)}))
          @@ (<<"p">> :> {Str(<<"7">>)}))

PlainDocs ==
    Mappings((<<>> :> {Str(<<"e">>)})
          @@ (<<"n">> :> {PhAx})
          @@ (<<"N", "o", "t", "e">> :> {Str(<<"x">>)}))

PortsNodes ==
    {MapNode(m) : m \in Mappings((<<"a">> :> {PhA5, Str(<<"x">>), Str(<<"y">>)})
                              @@ (<<"b">> :> {PhA5, Str(<<"x">>), Str(<<"y">>)}))}

DatabaseDocs == Mappings(<<"p">> :> (PortsNodes \cup {Str(<<"h">>)}))

ServiceNodes ==
    {MapNode(m) :
        m \in Mappings((<<"n">> :> {PhAx})
                    @@ (<<"u">> :> {SeqNode(s) : s \in SeqsUpTo({Str(<<"1">>), Str(<<"x">>)}, MaxSeq)}))}

OptNodes ==
    { MapNode(EmptyMap),
      MapNode(<<"n">> :> PhAx),
      MapNode((<<"n">> :> PhAx) @@ (<<"u">> :> SeqNode(<<Str(<<"1">>)>>))),
      MapNode((<<"n">> :> PhAx) @@ (<<"u">> :> SeqNode(<<Str(<<"x">>)>>))),
      Str(<<"h">>) }

AppDocs ==
    Mappings((<<"s">> :> (ServiceNodes \cup {Str(<<"h">>)})) @@ (<<"o">> :> OptNodes))

\* The decoded documents handed to a target.
Docs(name) ==
    CASE name = "Server" -> ServerDocs
      [] name = "Plain" -> PlainDocs
      [] name = "Database" -> DatabaseDocs
      [] name = "App" -> AppDocs
      [] OTHER -> ScalarDocs

(* --------------------------------------------------------- environment *)

Names == { <<"A">>, <<"B">> }

\* Values a variable is set to; <<>> is unset or empty.
EnvVals == { <<>>, <<"7">>, <<"z", "'">> }

\* The scalars handed to the resolver on its own: every text of at most
\* MaxBody characters, as it stands and as the body of ${...}.
BodyChars == { "A", ":", "'", " ", "x" }

Bodies == SeqsUpTo(BodyChars, MaxBody)

ResolverInputs ==
    {Str(b) : b \in Bodies} \cup {Str(<<"$", "{">> \o b \o <<"}">>) : b \in Bodies}

(* -------------------------------------------------------- state machine *)

\* A record the caller filled before the call: every field of it differs
\* from its zero value.
RECURSIVE Filled(_)
Filled(t) ==
    CASE t.kind \in {"int", "int8", "int16", "int32", "int64", "uint"} -> 9
      [] t.kind = "duration" -> [sec |-> 9, nsec |-> 0]
      [] t.kind = "float64" -> [num |-> 9, scale |-> 0]
      [] t.kind = "string" -> <<"q">>
      [] t.kind = "bool" -> TRUE
      [] t.kind = "time" -> 9
      [] t.kind = "bytes" -> [nil |-> FALSE, e |-> <<"q">>]
      [] t.kind = "slice" -> [nil |-> FALSE, e |-> <<Filled(t.elem)>>]
      [] t.kind = "map" -> [nil |-> FALSE, m |-> (<<"a">> :> Filled(t.elem))]
      [] t.kind = "interface" -> [nil |-> FALSE, v |-> Str(<<"q">>)]
      [] t.kind = "ptr" -> [nil |-> FALSE, p |-> Filled(t.elem)]
      [] t.kind = "struct" -> [n \in FieldNames(t) |-> Filled(FieldOf(t, n).typ)]

\* target is the record type the caller passes, cfg the record, doc the
\* decoded document the caller holds and env the process environment.  op is
\* the last operation; pre, err and log describe the last populate call (the
\* record before it, its result and the time parsers it called); raw is the
\* scalar handed to the resolver on its own and out what it returned.

TypeOK ==
    /\ target \in Targets
    /\ doc \in Docs(target)
    /\ op \in {"init", "setenv", "populate", "getEnv"}
    /\ env \in [Names -> EnvVals]

Init ==
    /\ target \in Targets
    /\ cfg \in {Zero(TargetType(target)), Filled(TargetType(target))}
    /\ doc \in Docs(target)
    /\ env = [n \in Names |-> <<>>]
    /\ op = "init"
    /\ pre = cfg
    /\ err = NilErr
    /\ log = <<>>
    /\ raw = Null
    /\ out = <<>>

InitResolver ==
    /\ target = "string"
    /\ cfg = Zero(TargetType(target))
    /\ doc = EmptyMap
    /\ env = [n \in Names |-> <<>>]
    /\ op = "init"
    /\ pre = cfg
    /\ err = NilErr
    /\ log = <<>>
    /\ raw \in ResolverInputs
    /\ out = <<>>

\* os.Setenv(name, val)
Setenv(name, val) ==
    /\ env' = [env EXCEPT ![name] = val]
    /\ op' = "setenv"
    /\ pre' = cfg
    /\ err' = NilErr
    /\ log' = <<>>
    /\ out' = <<>>
    /\ UNCHANGED <<target, cfg, doc, raw>>

\* The record and the bookkeeping after a populate call that returned r.
Returned(r) ==
    /\ cfg' = r.val
    /\ err' = r.err
    /\ log' = r.log
    /\ pre' = cfg

\* UnmarshalJSON / UnmarshalYAML once the bytes decoded to the mapping doc;
\* start is where the runtime begins its walk over a mapping's entries.
Populate(start) ==
    /\ Returned(populateFields(env, start, TargetType(target), cfg, doc))
    /\ op' = "populate"
    /\ UNCHANGED <<target, doc, env, raw, out>>

\* getEnv(raw) on its own.
Resolve ==
    /\ out' = getEnv(env, raw)
    /\ op' = "getEnv"
    /\ UNCHANGED <<target, cfg, doc, env, pre, err, log, raw>>

Next ==
    \/ \E name \in Names, val \in EnvVals : Setenv(name, val)
    \/ \E start \in {0, 1} : Populate(start)

Spec == Init /\ [][Next]_vars

NextResolver ==
    \/ \E name \in Names, val \in EnvVals : Setenv(name, val)
    \/ Resolve

SpecResolver == InitResolver /\ [][NextResolver]_vars

(* ================================================================ claims *)

\* The last operation was a populate call on the record type T.
Called == op = "populate"

T == TargetType(target)

Unset(name) == OsGetenv(env, name) = <<>>

(* ------------------------------------------------------------------ C1 *)

\* Position of the field called name among the fields of t.
FieldIndex(t, name) == CHOOSE i \in 1..Len(t.fields) : t.fields[i].name = name

\* Every field whose lookup key is absent from the mapping `node` holds in
\* `after` what it held in `before`, at every depth: through nested records
\* and through optional wrappers.  path is the error path below this record
\* (<<>> for none).  With fresh = TRUE a field the call stopped short of is
\* required to be untouched, and the record of an optional wrapper the call
\* reached is compared with a new zero record instead of the record the
\* wrapper pointed at before the call.
RECURSIVE AbsentKept(_, _, _, _, _, _)
AbsentKept(t, before, after, node, path, fresh) ==
    \A i \in 1..Len(t.fields) :
        LET f == t.fields[i]
            key == lookupKey(f)
            reached == path = <<>> \/ i <= FieldIndex(t, path[1])
            below == IF path # <<>> /\ path[1] = f.name THEN Tail(path) ELSE <<>>
        IN  IF fresh /\ ~reached THEN after[f.name] = before[f.name]
            ELSE IF key \notin DOMAIN node THEN after[f.name] = before[f.name]
            ELSE IF node[key].k # "map" THEN TRUE
            ELSE IF f.typ.kind = "struct"
                 THEN AbsentKept(f.typ, before[f.name], after[f.name], node[key].v, below, fresh)
            ELSE IF f.typ.kind = "ptr" /\ f.typ.elem.kind = "struct"
                 THEN AbsentKept(f.typ.elem,
                                 IF fresh THEN Zero(f.typ.elem) ELSE before[f.name].p,
                                 after[f.name].p, node[key].v, below, fresh)
            ELSE TRUE

\* The error, if any, names only fields whose lookup key the mapping holds.
RECURSIVE ErrAtPresent(_, _, _)
ErrAtPresent(t, node, path) ==
    \/ path = <<>>
    \/ \E i \in 1..Len(t.fields) :
          LET f == t.fields[i]
              key == lookupKey(f)
              inner == IF f.typ.kind = "ptr" THEN f.typ.elem ELSE f.typ
          IN  /\ f.name = path[1]
              /\ key \in DOMAIN node
              /\ \/ Len(path) = 1
                 \/ inner.kind # "struct"
                 \/ node[key].k = "map" /\ ErrAtPresent(inner, node[key].v, Tail(path))

\* C1 as stated: a field whose lookup key is absent from the corresponding
\* document mapping, at any nesting depth, holds after the call exactly the
\* value it held before it, and causes no error.
C1_AbsentKeptAtAnyDepth ==
    Called => AbsentKept(T, pre, cfg, doc, err.path, FALSE) /\ ErrAtPresent(T, doc, err.path)

\* C1 amended: a field whose lookup key is absent from the corresponding
\* document mapping causes no error and keeps its value when it is reached
\* through nested records only; inside an optional wrapper that the call
\* got to, it holds the zero value, the wrapper being allocated anew, and
\* inside one the call stopped short of, the value it held before.
C1_AbsentKept ==
    Called => AbsentKept(T, pre, cfg, doc, err.path, TRUE) /\ ErrAtPresent(T, doc, err.path)

\* A filled App record populated from a document whose nested mappings both
\* lack the key of Name: Service.Name is kept, Opt.Name is zero.
C1_Witness ==
    /\ Called /\ target = "App" /\ pre = Filled(AppType)
    /\ <<"s">> \in DOMAIN doc /\ doc[<<"s">>].k = "map" /\ <<"n">> \notin DOMAIN doc[<<"s">>].v
    /\ <<"o">> \in DOMAIN doc /\ doc[<<"o">>].k = "map" /\ <<"n">> \notin DOMAIN doc[<<"o">>].v
    /\ cfg.Service.Name = <<"q">>
    /\ cfg.Opt.p.Name = <<>>

(* ------------------------------------------------------------------ C2 *)

\* raw is ${body} with a ':' in the body.
HasDefault(node) ==
    /\ node.k = "str"
    /\ HasPrefix(node.v, <<"$", "{">>) /\ HasSuffix(node.v, <<"}">>)
    /\ Index(SubSeq(node.v, 3, Len(node.v) - 1), ":") > 0

BodyOf(node) == SubSeq(node.v, 3, Len(node.v) - 1)

NameOf(body) == SubSeq(body, 1, Index(body, ":") - 1)

DefaultOf(body) == SubSeq(body, Index(body, ":") + 1, Len(body))

EnvOrDefault(body) ==
    IF Unset(NameOf(body)) THEN DefaultOf(body) ELSE OsGetenv(env, NameOf(body))

\* C2 as stated: ${NAME:default} resolves to the live value of NAME when NAME
\* is set and non-empty, and to default, everything after the first ':' of
\* the body, when NAME is unset or empty.
C2_EnvOrDefault ==
    (op = "getEnv" /\ HasDefault(raw)) => out = EnvOrDefault(BodyOf(raw))

\* C2 amended: the resolver returns that value with its single quotes
\* removed, NAME and default being the text before and after the first ':'
\* of the body once the white space around the body is trimmed.
C2_EnvOrDefaultUnquoted ==
    (op = "getEnv" /\ HasDefault(raw)) =>
        out = RemoveAll(EnvOrDefault(TrimSpace(BodyOf(raw))), "'")

\* ${A:x'} resolved while A is z': the live value wins, without its quote.
C2_Witness ==
    /\ op = "getEnv"
    /\ raw = Str(<<"$", "{", "A", ":", "x", "'", "}">>)
    /\ env[<<"A">>] = <<"z", "'">>
    /\ out = <<"z">>

(* ------------------------------------------------------------------ C3 *)

ConvertedKinds ==
    { "int", "int8", "int16", "int32", "int64", "float64", "bool", "string", "duration", "time" }

\* C3: ${NAME} with NAME unset resolves to the empty string, and every
\* scalar kind stores it as its zero value without an error.
C3_UnsetIsZero ==
    (/\ Called /\ target \in ConvertedKinds
     /\ <<"v">> \in DOMAIN doc /\ doc[<<"v">>] = PhA /\ Unset(<<"A">>)) =>
        /\ err = NilErr
        /\ cfg.V = Zero(Scalar(target))

\* A filled duration record populated from ${A} with A unset.
C3_Witness ==
    /\ Called /\ target = "duration" /\ pre = Filled(T)
    /\ <<"v">> \in DOMAIN doc /\ doc[<<"v">>] = PhA /\ Unset(<<"A">>)
    /\ cfg.V = ZeroDuration

(* ------------------------------------------------------------------ C4 *)

\* What the call assigns to the top-level field f: nothing when its key is
\* absent, else what converting the document's node yields.
Assigned(f) ==
    IF lookupKey(f) \notin DOMAIN doc THEN pre[f.name]
    ELSE setFieldValue(env, 0, f.typ, pre[f.name], doc[lookupKey(f)]).val

\* Converting the document's node for the top-level field f succeeds, or
\* the document has no node for it.
Passes(f) ==
    lookupKey(f) \in DOMAIN doc =>
        setFieldValue(env, 0, f.typ, pre[f.name], doc[lookupKey(f)]).err = NilErr

\* Field i of the target declares a sequence, the document gives it a
\* mapping, and no field before it fails.
MappingForSequence(i) ==
    LET f == T.fields[i]
    IN  /\ f.typ.kind = "slice"
        /\ lookupKey(f) \in DOMAIN doc
        /\ doc[lookupKey(f)].k = "map"
        /\ \A j \in 1..(i - 1) : Passes(T.fields[j])

\* C4: a mapping given to a sequence field stops the call at that field
\* with one error naming it; the fields before it keep what the call
\* assigned to them and no field after it is touched.
C4_MappingForSequenceStops ==
    \A i \in 1..Len(T.fields) :
        (Called /\ MappingForSequence(i)) =>
            /\ err.path = <<T.fields[i].name>>
            /\ err.kind = "expected slice for field"
            /\ \A j \in 1..(i - 1) : cfg[T.fields[j].name] = Assigned(T.fields[j])
            /\ \A j \in (i + 1)..Len(T.fields) : cfg[T.fields[j].name] = pre[T.fields[j].name]

\* A filled Server record given a name, a mapping for Hosts and a port: the
\* name is the resolved one, the port is the one it had.
C4_Witness ==
    /\ Called /\ target = "Server" /\ pre = Filled(ServerType)
    /\ DOMAIN doc = {<<"n">>, <<"h">>, <<"p">>} /\ doc[<<"h">>].k = "map"
    /\ cfg.Name = <<"x">> /\ cfg.Hosts = pre.Hosts /\ cfg.Port = 9
    /\ err.path = <<"Hosts">>

(* ------------------------------------------------------------------ C5 *)

\* C5: a populate call that follows a populate call with the same document
\* and environment leaves the record as it was and returns the same result.
C5_Idempotent ==
    [][(op = "populate" /\ op' = "populate" /\ doc' = doc /\ env' = env) =>
            (cfg' = cfg /\ err' = err)]_vars

\* The record's half of C5 alone.
IdempotentRecord ==
    [][(op = "populate" /\ op' = "populate" /\ doc' = doc /\ env' = env) => cfg' = cfg]_vars

(* ------------------------------------------------------------------ C6 *)

\* Field f of the target is a sequence of T and the document gives it a
\* sequence.
SequenceGiven(f) ==
    /\ f.typ.kind = "slice"
    /\ lookupKey(f) \in DOMAIN doc
    /\ doc[lookupKey(f)].k = "seq"

\* Placeholder resolution, then conversion to the kind t, of one node.
ConversionOf(t, node) == setFieldValue(env, 0, t, Zero(t), node).val

\* C6: a successful call stores, for a document sequence of n elements, a
\* sequence of n elements whose i-th element is the conversion of the i-th
\* document element.
C6_SequenceInOrder ==
    \A k \in 1..Len(T.fields) :
        LET f == T.fields[k]
            given == doc[lookupKey(f)].v
            stored == cfg[f.name]
        IN  (Called /\ err = NilErr /\ SequenceGiven(f)) =>
                /\ ~stored.nil
                /\ Len(stored.e) = Len(given)
                /\ \A i \in 1..Len(given) : stored.e[i] = ConversionOf(f.typ.elem, given[i])
                /\ f.typ.elem.kind = "string" =>
                      \A i \in 1..Len(given) : stored.e[i] = getEnv(env, given[i])

\* ["${A:x}", "${B:y}"] with A unset and B set to z' yields ["x", "z"].
C6_Witness ==
    /\ Called /\ target = "Server" /\ err = NilErr
    /\ <<"h">> \in DOMAIN doc /\ doc[<<"h">>] = SeqNode(<<PhAx, PhBy>>)
    /\ Unset(<<"A">>) /\ env[<<"B">>] = <<"z", "'">>
    /\ cfg.Hosts = [nil |-> FALSE, e |-> << <<"x">>, <<"z">> >>]

(* ------------------------------------------------------------------ C7 *)

SignedKinds == { "int", "int8", "int16", "int32", "int64" }

\* x is a value of the signed integer kind (the values of the model all fit
\* 32 bits).
InRange(kind, x) ==
    \/ Bits(kind) >= 32
    \/ -Pow2(Bits(kind) - 1) <= x /\ x < Pow2(Bits(kind) - 1)

Representable(kind, s) == IsDecimal(s) /\ InRange(kind, DecimalVal(s))

\* C7: a signed integer field given a non-empty resolved text that is not a
\* base-10 integer of its kind fails with an error naming the field and is
\* not assigned; a successful call stores the integer the text writes.
C7_IntegerOrError ==
    LET s == getEnv(env, doc[<<"v">>])
    IN  (Called /\ target \in SignedKinds /\ <<"v">> \in DOMAIN doc /\ s # <<>>) =>
            /\ ~Representable(target, s) => (err.path = <<"V">> /\ cfg.V = pre.V)
            /\ err = NilErr => cfg.V = DecimalVal(s)

(* ------------------------------------------------------------------ C8 *)

\* C8: a timestamp field whose node is no native timestamp and resolves to
\* a non-empty text tries the flexible parser first and, when it fails, the
\* RFC-3339 one; the conversion fails only if both reject the text.
C8_FlexibleThenRFC3339 ==
    LET s == getEnv(env, doc[<<"v">>])
    IN  (/\ Called /\ target = "time" /\ <<"v">> \in DOMAIN doc
         /\ doc[<<"v">>].k # "time" /\ s # <<>>) =>
            /\ log # <<>> /\ log[1] = "date.Parse"
            /\ s \notin FlexibleTexts => log = <<"date.Parse", "time.Parse">>
            /\ err # NilErr <=> s \notin (FlexibleTexts \cup RFC3339Texts)

(* ------------------------------------------------------------------ C9 *)

Untagged(f) == f.json = <<>> /\ f.yaml = <<>>

\* C9: a field with neither tag keeps its value and causes no error,
\* whatever the document, one with the empty key included.
C9_UntaggedNeverPopulated ==
    \A i \in 1..Len(T.fields) :
        (Called /\ Untagged(T.fields[i])) =>
            /\ cfg[T.fields[i].name] = pre[T.fields[i].name]
            /\ err.path # <<>> => err.path[1] # T.fields[i].name

(* ----------------------------------------------------------------- C10 *)

Collection(t) == t.kind \in {"slice", "map"}

\* The fields of the nested record type t declared before its field `name`.
Before(t, name) == {t.fields[j] : j \in 1..(FieldIndex(t, name) - 1)}

====
